---- MODULE Spec2Model ----
(***************************************************************************)
(* A model of the Bar-Coded Boarding Pass (BCBP) decoder of pbflightlog    *)
(* (src/pbflightlog/boarding_pass.py), of the commands that use it         *)
(* (src/pbflightlog/tools.py) and of the AeroAPI rate limiter              *)
(* (src/pbflightlog/aeroapi.py).  The boarding pass text is a TLA+         *)
(* string; the decoder's dictionaries are functions from keys to strings;  *)
(* an optional value (Python's None) is the empty tuple and a present      *)
(* value v is the one-element tuple <<v>>.                                 *)
(***************************************************************************)
EXTENDS Integers, Sequences, FiniteSets, TLC

VARIABLES
    text,            \* self.bcbp_str
    pc,              \* position of __init__/__parse
    raw,             \* self.raw without its 'legs' entry
    legs,            \* self.raw['legs']
    legs_set,        \* whether self.raw has the key 'legs'
    valid,           \* self.valid
    version_number,  \* self.version_number (None or <<n>>)
    leg_count,       \* self.leg_count (None while the attribute is unset)
    leg_index,       \* loop variable of __parse
    cursor,          \* local cursor of __parse
    leg_end,         \* local leg_end of __parse
    cond_air_len,    \* local cond_air_len of __parse
    cond_reads,      \* history: text positions the current leg's conditional
                     \* and airline fields were sliced from
    mand_starts,     \* history: offsets at which __parse_mand_r was called
    now,             \* the date datetime.now() returns
    relevant_date,   \* relevant_date of add_flight_pkpasses (None without a
                     \* wallet pass)
    fd_pc,           \* position of the flight_dates property
    leg_dates,       \* local leg_dates of flight_dates
    leg_nows,        \* history: the clock at each entry of leg_dates
    ticks,           \* history: days the clock advanced during flight_dates
    clock,           \* datetime.now(timezone.utc), in seconds
    wait_time,       \* _rate_limiter.wait_time
    wait_until,      \* _rate_limiter.wait_until
    rl_pc,           \* position of the function that called wait()
    rl_caller,       \* the function that called wait()
    rl_now,          \* local now of wait()
    sleep_until,     \* the earliest time time.sleep() returns
    rl_slept,        \* whether this wait() called time.sleep()
    wait_returns,    \* history: the time each wait() returned
    wait_slept,      \* history: whether each wait() slept
    request_times,   \* history: the time each requests.get() was issued
    request_fns,     \* history: the function that issued each request
    tool,            \* the command of tools.py that is running
    tool_pc,         \* position of the command
    tool_legs,       \* local legs of add_flight_bcbp
    selected_leg,    \* local selected_leg of add_flight_bcbp (None or <<i>>)
    airline,         \* local airline (None before the lookup)
    fa_flights,      \* the flights of the AeroAPI response
    flight,          \* local flight of _add_fa_flight_results
    fields_set,      \* whether the fields were set on the flight
    calls            \* history: what the command has called or read

parse_vars == <<text, pc, raw, legs, legs_set, valid, version_number,
                leg_count, leg_index, cursor, leg_end, cond_air_len,
                cond_reads, mand_starts>>

date_vars == <<now, relevant_date, fd_pc, leg_dates, leg_nows, ticks>>

rate_vars == <<clock, wait_time, wait_until, rl_pc, rl_caller, rl_now,
               sleep_until, rl_slept, wait_returns, wait_slept,
               request_times, request_fns>>

tool_vars == <<tool, tool_pc, tool_legs, selected_leg, airline, fa_flights,
               flight, fields_set, calls>>

caller_vars == <<rate_vars, tool_vars>>

vars == <<parse_vars, date_vars, caller_vars>>

-----------------------------------------------------------------------------
(* Python values *)

None == <<>>
Some(v) == <<v>>
IsNone(x) == x = <<>>
Val(x) == x[1]

Min(a, b) == IF a < b THEN a ELSE b
Max(a, b) == IF a > b THEN a ELSE b

\* Python's handling of one slice bound for a sequence of length n.
SliceIndex(n, i) == IF i < 0 THEN Max(n + i, 0) ELSE Min(i, n)

\* Python's s[start:stop]: bounds are clamped, never an error.
Slice(s, start, stop) ==
    LET a == SliceIndex(Len(s), start)
        b == SliceIndex(Len(s), stop)
    IN  IF a < b THEN SubSeq(s, a + 1, b) ELSE ""

\* The (0-based) positions of s that s[start:stop] takes characters from.
SlicePositions(s, start, stop) ==
    LET a == SliceIndex(Len(s), start)
        b == SliceIndex(Len(s), stop)
    IN  {p \in a..(b - 1) : TRUE}

Char(s, i) == SubSeq(s, i, i)

HexDigits == "0123456789abcdefABCDEF"
Whitespace == {" "}

IsDigit(c, base) ==
    \E i \in 1..Len(HexDigits) :
        /\ Char(HexDigits, i) = c
        /\ (IF i <= 16 THEN i - 1 ELSE i - 7) < base

DigitValue(c) ==
    LET i == CHOOSE j \in 1..Len(HexDigits) : Char(HexDigits, j) = c
    IN  IF i <= 16 THEN i - 1 ELSE i - 7

RECURSIVE LStrip(_)
LStrip(s) == IF Len(s) > 0 /\ Char(s, 1) \in Whitespace THEN LStrip(Tail(s)) ELSE s

RECURSIVE RStrip(_)
RStrip(s) ==
    IF Len(s) > 0 /\ Char(s, Len(s)) \in Whitespace
    THEN RStrip(SubSeq(s, 1, Len(s) - 1)) ELSE s

Strip(s) == RStrip(LStrip(s))

\* The digits of an int() literal: digits of the base, single underscores
\* allowed between two digits.
WellFormedDigits(u, base) ==
    /\ Len(u) > 0
    /\ \A i \in 1..Len(u) :
          \/ IsDigit(Char(u, i), base)
          \/ /\ Char(u, i) = "_"
             /\ 1 < i /\ i < Len(u)
             /\ IsDigit(Char(u, i - 1), base)
             /\ IsDigit(Char(u, i + 1), base)

RECURSIVE DigitsValue(_, _, _)
DigitsValue(u, base, acc) ==
    IF Len(u) = 0 THEN acc
    ELSE IF Head(u) = "_" THEN DigitsValue(Tail(u), base, acc)
    ELSE DigitsValue(Tail(u), base, acc * base + DigitValue(Head(u)))

\* The digits of a literal after its sign: base 16 accepts a 0x prefix,
\* with one underscore allowed after it.
StripPrefix(u, base) ==
    IF base = 16 /\ Len(u) >= 2 /\ SubSeq(u, 1, 2) \in {"0x", "0X"}
    THEN IF Len(u) >= 3 /\ Char(u, 3) = "_"
         THEN SubSeq(u, 4, Len(u))
         ELSE SubSeq(u, 3, Len(u))
    ELSE u

\* The sign of a stripped literal and what follows it.
Signed(t) == Len(t) > 0 /\ Char(t, 1) \in {"+", "-"}
Unsigned(t) == IF Signed(t) THEN Tail(t) ELSE t

\* int(s, base) reading a blank text as zero.
PyIntBlankZero(s, base) ==
    LET t == Strip(s)
        w == StripPrefix(Unsigned(t), base)
    IN  IF t = "" THEN Some(0)
        ELSE IF ~WellFormedDigits(w, base) THEN None
        ELSE IF Signed(t) /\ Char(t, 1) = "-"
             THEN Some(0 - DigitsValue(w, base, 0))
             ELSE Some(DigitsValue(w, base, 0))

\* Python's int(s, base) for base 10 or 16: surrounding whitespace is
\* stripped, one sign is accepted, and base 16 accepts a 0x prefix.  None
\* stands for ValueError.
PyInt(s, base) ==
    LET t == Strip(s)
        w == StripPrefix(Unsigned(t), base)
    IN  IF ~WellFormedDigits(w, base) THEN None
        ELSE IF Signed(t) /\ Char(t, 1) = "-"
             THEN Some(0 - DigitsValue(w, base, 0))
             ELSE Some(DigitsValue(w, base, 0))

\* d[k] = v on a dictionary.
DictSet(d, k, v) == (k :> v) @@ d
\* d.update(e)
DictUpdate(d, e) == e @@ d

-----------------------------------------------------------------------------
(* _BCBP_FIELDS *)

Field(k, n) == [key |-> k, length |-> Some(n)]
VarField(k) == [key |-> k, length |-> None]

BCBP_FIELDS == [
    mandatory_unique |-> <<
        Field("format_code", 1),
        Field("leg_count", 1),
        Field("passenger_name", 20),
        Field("electronic_ticket", 1) >>,
    mandatory_repeated |-> <<
        Field("pnr", 7),
        Field("from_airport", 3),
        Field("to_airport", 3),
        Field("operating_carrier", 3),
        Field("flight_number", 5),
        Field("flight_date", 3),
        Field("compartment_code", 1),
        Field("seat_number", 4),
        Field("check_in_sequence", 5),
        Field("passenger_status", 1),
        Field("conditional_airline_length", 2) >>,
    conditional_unique |-> <<
        Field("version_number_begin", 1),
        Field("version_number", 1),
        Field("following_unique_length", 2),
        Field("passenger_description", 1),
        Field("check_in_source", 1),
        Field("boarding_pass_source", 1),
        Field("boarding_pass_date", 4),
        Field("document_type", 1),
        Field("boarding_pass_issuer_airline", 3),
        Field("baggage_tag_number", 13),
        Field("baggage_tag_number_nonconsecutive_1", 13),
        Field("baggage_tag_number_nonconsecutive_2", 13) >>,
    conditional_repeated |-> <<
        Field("following_repeated_length", 2),
        Field("airline_numeric_code", 3),
        Field("document_form_serial_number", 10),
        Field("selectee_indicator", 1),
        Field("international_doc_verification", 1),
        Field("marketing_carrier", 3),
        Field("frequent_flier_airline", 3),
        Field("frequent_flier_number", 16),
        Field("id_ad", 1),
        Field("free_baggage_allowance", 3),
        Field("fast_track", 1) >>,
    airline_repeated |-> <<
        VarField("individual_airline_use") >>,
    security |-> <<
        Field("security_data_begin", 1),
        Field("security_data_type", 1),
        Field("security_data_length", 2),
        VarField("security_data") >> ]

Keys(fields) == {fields[i].key : i \in 1..Len(fields)}
IndexOfKey(fields, k) == CHOOSE i \in 1..Len(fields) : fields[i].key = k

\* sum(lengths[0:n]) over the fields whose length is not None
RECURSIVE SumLengths(_, _)
SumLengths(fields, n) ==
    IF n <= 0 THEN 0
    ELSE SumLengths(fields, n - 1)
         + (IF IsNone(fields[n].length) THEN 0 ELSE Val(fields[n].length))

-----------------------------------------------------------------------------
(* The block parsers *)

AllLengths(fields) == SumLengths(fields, Len(fields))

\* The loop shared by __parse_mand_u and __parse_mand_r: every field of a
\* fixed block is stored, sliced at offset + sum(lengths[0:i]).
ParseFixed(s, offset, fields) ==
    [k \in Keys(fields) |->
        LET i == IndexOfKey(fields, k)
            start == offset + SumLengths(fields, i - 1)
            stop == start + Val(fields[i].length)
        IN  Slice(s, start, stop)]

\* A fixed-block loop that does not store a field whose slice is empty.
ParseFixedSkipEmpty(s, offset, fields) ==
    LET all == ParseFixed(s, offset, fields)
    IN  [k \in {x \in Keys(fields) : all[x] # ""} |-> all[k]]

\* The fields __parse_mand_u stores in self.raw.
parse_mand_u_skip_empty(s) ==
    ParseFixedSkipEmpty(s, 0, BCBP_FIELDS.mandatory_unique)

parse_mand_u(s) == ParseFixed(s, 0, BCBP_FIELDS.mandatory_unique)

\* The fields __parse_mand_r stores in self.raw['legs'][leg_index].
parse_mand_r_shifted(s, offset) ==
    ParseFixed(s, offset + 1, BCBP_FIELDS.mandatory_repeated)

parse_mand_r(s, offset) == ParseFixed(s, offset, BCBP_FIELDS.mandatory_repeated)

\* Where the slice of a field of width length ends: at the end of the
\* declared following length when fewer than length characters remain.
FieldStopFull(start, length, has_fol, remaining_size) == start + length

FieldStop(start, length, has_fol, remaining_size) ==
    IF has_fol /\ remaining_size < length
    THEN start + remaining_size
    ELSE start + length

\* The break of the loop: nothing of the declared following length remains.
BlockEndedWhenNegative(has_fol, remaining_size) == has_fol /\ remaining_size < 0

BlockEnded(has_fol, remaining_size) == has_fol /\ remaining_size <= 0

\* The loop of __parse_cond from field i on.  st holds the locals: cond (the
\* fields stored so far), has_fol (fol_len is not None), fol_offset, fol_len,
\* failed (the ValueError branch was taken) and reads (positions sliced).
RECURSIVE ParseCondLoop(_, _, _, _, _, _)
ParseCondLoop(s, offset, fields, following_length_key, i, st) ==
    IF i > Len(fields) THEN st
    ELSE
    LET f == fields[i]
        start == offset + SumLengths(fields, i - 1)
        remaining_size == IF st.has_fol
                          THEN st.fol_offset + st.fol_len - start ELSE 0
    IN  IF BlockEnded(st.has_fol, remaining_size) THEN st
        ELSE
        LET stop == FieldStop(start, Val(f.length), st.has_fol, remaining_size)
            value_str == Slice(s, start, stop)
            st1 == [st EXCEPT !.cond = DictSet(@, f.key, value_str),
                              !.reads = @ \cup SlicePositions(s, start, stop)]
        IN  IF f.key = following_length_key
            THEN LET n == PyInt(value_str, 16)
                 IN  IF IsNone(n) THEN [st1 EXCEPT !.failed = TRUE]
                     ELSE ParseCondLoop(s, offset, fields,
                              following_length_key, i + 1,
                              [st1 EXCEPT !.has_fol = TRUE,
                                          !.fol_len = Val(n),
                                          !.fol_offset = stop])
            ELSE ParseCondLoop(s, offset, fields, following_length_key,
                               i + 1, st1)

\* The number of characters __parse_cond reports as parsed.
CondLengthAbsolute(fol_offset, fol_len, offset) == fol_offset + fol_len

CondLengthAtMostFields(fol_offset, fol_len, offset) ==
    fol_offset + Min(fol_len, 42) - offset

CondLength(fol_offset, fol_len, offset) == fol_offset + fol_len - offset

\* __parse_cond: cond are the fields it stores, length its return value
\* (None when it returns None) and invalid whether it set self.valid = False.
parse_cond(s, offset, fields, following_length_key) ==
    LET st == ParseCondLoop(s, offset, fields, following_length_key, 1,
                  [cond |-> <<>>, has_fol |-> FALSE, fol_offset |-> 0,
                   fol_len |-> 0, failed |-> FALSE, reads |-> {}])
    IN  IF st.failed \/ ~st.has_fol
        THEN [cond |-> st.cond, reads |-> st.reads, length |-> None,
              invalid |-> TRUE]
        ELSE [cond |-> st.cond, reads |-> st.reads,
              length |-> Some(CondLength(st.fol_offset, st.fol_len, offset)),
              invalid |-> FALSE]

parse_cond_u(s, offset) ==
    parse_cond(s, offset, BCBP_FIELDS.conditional_unique,
               "following_unique_length")

parse_cond_r(s, offset) ==
    parse_cond(s, offset, BCBP_FIELDS.conditional_repeated,
               "following_repeated_length")

\* __parse_airline slicing to the end of the text.
parse_airline_to_text_end(s, offset_start, offset_end) ==
    (BCBP_FIELDS.airline_repeated[1].key :> Slice(s, offset_start, Len(s)))

\* The field __parse_airline stores in the leg.
parse_airline(s, offset_start, offset_end) ==
    (BCBP_FIELDS.airline_repeated[1].key :> Slice(s, offset_start, offset_end))

\* __parse_security leaving text without the '^' marker unread.
parse_security_marked_only(s, offset) ==
    LET fields == BCBP_FIELDS.security
        last == fields[Len(fields)].key
        head == ParseFixed(s, offset, SubSeq(fields, 1, 3))
        n == PyInt(head["security_data_length"], 16)
        sec_offset == offset + AllLengths(fields)
        sec_data_len == Min(Val(n), Len(s) - sec_offset)
    IN  IF Slice(s, offset, offset + 1) # "^"
        THEN [data |-> <<>>, length |-> Some(0), invalid |-> FALSE]
        ELSE IF IsNone(n)
        THEN [data |-> head, length |-> None, invalid |-> TRUE]
        ELSE [data |-> DictSet(head, last,
                         Slice(s, sec_offset, sec_offset + sec_data_len)),
              length |-> Some((sec_offset - offset) + sec_data_len),
              invalid |-> FALSE]

\* __parse_security trusting security_data_length past the end of the text.
parse_security_unclamped(s, offset) ==
    LET fields == BCBP_FIELDS.security
        last == fields[Len(fields)].key
        head == ParseFixed(s, offset, SubSeq(fields, 1, 3))
        n == PyInt(head["security_data_length"], 16)
        sec_offset == offset + AllLengths(fields)
    IN  IF Slice(s, offset, offset + 1) # "^"
        THEN [data |-> (last :> Slice(s, offset, Len(s))),
              length |-> Some(Len(s) - offset), invalid |-> FALSE]
        ELSE IF IsNone(n)
        THEN [data |-> head, length |-> None, invalid |-> TRUE]
        ELSE [data |-> DictSet(head, last,
                         Slice(s, sec_offset, sec_offset + Val(n))),
              length |-> Some((sec_offset - offset) + Val(n)),
              invalid |-> FALSE]

\* __parse_security: data are the fields it stores in self.raw, length its
\* return value, invalid whether it set self.valid = False.
parse_security(s, offset) ==
    LET fields == BCBP_FIELDS.security
        last == fields[Len(fields)].key
    IN  IF Slice(s, offset, offset + 1) = "^"
        THEN LET head == ParseFixed(s, offset, SubSeq(fields, 1, 3))
                 n == PyInt(head["security_data_length"], 16)
                 sec_offset == offset + AllLengths(fields)
                 sec_data_len ==
                     IF sec_offset + Val(n) > Len(s)
                     THEN Len(s) - sec_offset ELSE Val(n)
             IN  IF IsNone(n)
                 THEN [data |-> head, length |-> None, invalid |-> TRUE]
                 ELSE [data |-> DictSet(head, last,
                                  Slice(s, sec_offset, sec_offset + sec_data_len)),
                       length |-> Some((sec_offset - offset) + sec_data_len),
                       invalid |-> FALSE]
        ELSE [data |-> (last :> Slice(s, offset, Len(s))),
              length |-> Some(Len(s) - offset), invalid |-> FALSE]

-----------------------------------------------------------------------------
(* Boarding pass texts the decoder is run on *)

\* The largest number of leg blocks a generated text holds.
MaxLegs == 5

HexUpper == "0123456789ABCDEF"
ToHex2(n) == Char(HexUpper, (n \div 16) + 1) \o Char(HexUpper, (n % 16) + 1)

\* The decimal digit of n, for n in 0..9.
DigitChar(n) == Char(HexUpper, n + 1)

RECURSIVE Repeat(_, _)
Repeat(s, n) == IF n <= 0 THEN "" ELSE s \o Repeat(s, n - 1)

\* A 23-character mandatory unique block with leg-count character lc.
MandUText(lc) == "M" \o lc \o "DOE/JOHN            " \o "E"

\* A 37-character mandatory repeated block ending in the length field cal.
MandRText(cal) ==
    "ABC123 " \o "YUL" \o "FRA" \o "AC " \o "0834 " \o "226" \o "F"
        \o "001A" \o "0025 " \o "1" \o cal

LegCountChars == {"0", "1", "2", "5", "X"}

CondUTexts == {"", ">", ">500", ">502WX", ">505WXY12", ">X00", ">200",
               ">5ZZ", ">5FF", ">5-1", ">533" \o Repeat("U", 50) \o "!"}
CondRTexts == {"", "00", "02AB", "0E00112345678902", "ZZ", "FF",
               "2B" \o Repeat("R", 42) \o "!"}
AirlineTexts == {"", "XY"}
LengthOverrides == {"00", "01", "ZZ", "-1", " 0", "7F"}
SecurityTexts == {"", "^100", "^102AB", "^1FFAB", "^1ZZ", "AB", "^", "^1F"}

\* A leg block: the mandatory block with length field cal, then body.
LegText(body, cal) == MandRText(cal) \o body

\* Leg blocks whose length field is the true length of the body, or one of
\* the overrides.
LegChoices(bodies, overrides) ==
    {LegText(body, ToHex2(Len(body))) : body \in bodies}
        \cup {LegText(body, cal) : body \in bodies, cal \in overrides}

Leg0Bodies ==
    {u \o r \o a : u \in CondUTexts, r \in CondRTexts, a \in AirlineTexts}
LegNBodies == {r \o a : r \in CondRTexts, a \in AirlineTexts}

Leg0Texts == LegChoices(Leg0Bodies, LengthOverrides)
Leg0Few == LegChoices({"", ">500", ">502WX02ABXY", ">20000"}, {})
               \cup {LegText(">50002AB", "05"), LegText(">", "01")}
Leg1Texts == LegChoices(LegNBodies, {"00", "01", "ZZ"})
PlainLeg == LegText("", "00")

\* One leg, every variation of its blocks.
SingleLegInputs ==
    {MandUText("1") \o leg \o tail : leg \in Leg0Texts, tail \in SecurityTexts}

\* Every leg-count character over a few legs.
LegCountInputs ==
    {MandUText(lc) \o leg \o tail :
        lc \in LegCountChars, leg \in Leg0Few \cup {""},
        tail \in SecurityTexts}

\* Several legs: a rich second leg, plain legs after it.
MultiLegInputs ==
    {MandUText(lc) \o leg0 \o leg1 \o Repeat(PlainLeg, k) \o tail :
        lc \in {"2", DigitChar(MaxLegs)}, leg0 \in Leg0Few,
        leg1 \in Leg1Texts, k \in 0..(MaxLegs - 2),
        tail \in {"", "^100", "AB"}}

\* Texts shorter than the mandatory unique block.
ShortInputs ==
    {Slice(MandUText(lc), 0, n) :
        lc \in LegCountChars,
        n \in 0..(AllLengths(BCBP_FIELDS.mandatory_unique) - 1)}

\* Values of the ten fixed-width fields that precede the length field of
\* a mandatory repeated block: two values of the field's width for each.
FieldValueChoices ==
    [pnr : {"ABC123 ", "       "},
     from_airport : {"YUL", "   "},
     to_airport : {"FRA", "0F "},
     operating_carrier : {"AC ", "00A"},
     flight_number : {"0834 ", "12345"},
     flight_date : {"226", " 01"},
     compartment_code : {"F", " "},
     seat_number : {"001A", "00  "},
     check_in_sequence : {"0025 ", "     "},
     passenger_status : {"1", "^"}]

\* The single-leg text that encodes the field values v with
\* conditional_airline_length 00.
EncodeSingleLeg(v) ==
    MandUText("1") \o v.pnr \o v.from_airport \o v.to_airport
        \o v.operating_carrier \o v.flight_number \o v.flight_date
        \o v.compartment_code \o v.seat_number \o v.check_in_sequence
        \o v.passenger_status \o "00"

RoundTripInputs == {EncodeSingleLeg(v) : v \in FieldValueChoices}

Inputs ==
    SingleLegInputs \cup LegCountInputs \cup MultiLegInputs
        \cup ShortInputs \cup RoundTripInputs

-----------------------------------------------------------------------------
(* Calendar dates and BoardingPass.flight_dates *)

\* A date is its proleptic Gregorian ordinal, as datetime.date keeps it:
\* day 1 is 0001-01-01.  The days before January 1st of year y.
DaysBeforeYear(y) ==
    (y - 1) * 365 + ((y - 1) \div 4) - ((y - 1) \div 100) + ((y - 1) \div 400)

\* date(year, 1, 1)
Jan1(y) == DaysBeforeYear(y) + 1

\* date.year of the date with ordinal n
YearOf(n) ==
    CHOOSE y \in (n \div 366)..((n \div 365) + 1) : Jan1(y) <= n /\ n < Jan1(y + 1)

\* date.timetuple().tm_yday
DayOfYear(n) == n - DaysBeforeYear(YearOf(n))

IsLeap(y) == (y % 4 = 0 /\ y % 100 # 0) \/ y % 400 = 0
DaysInYear(y) == IF IsLeap(y) THEN 366 ELSE 365

\* The days of the months before month m in year y, and date(y, m, d).
DaysBeforeMonth(y, m) ==
    LET common == <<0, 31, 59, 90, 120, 151, 181, 212, 243, 273, 304, 334>>
    IN  common[m] + (IF m > 2 /\ IsLeap(y) THEN 1 ELSE 0)

Date(y, m, d) == DaysBeforeYear(y) + DaysBeforeMonth(y, m) + d

\* Day-of-year values above this are rejected.
MaxDateOrdinal == 366
\* How far after the current date a flight date may lie, in days.
LatestDays == 3
\* How many years, the latest one included, are tried.
SearchYears == 8

\* The for loop over the years from year down to stop_year + 1: the first
\* year in which the day exists and is not after latest, None when the
\* loop ends without a break.
RECURSIVE SearchYear(_, _, _, _)
SearchYear(date_ordinal, latest_date, year, stop_year) ==
    IF year <= stop_year THEN None
    ELSE LET test_date == Jan1(year) + (date_ordinal - 1)
         IN  IF YearOf(test_date) # year
             THEN SearchYear(date_ordinal, latest_date, year - 1, stop_year)
             ELSE IF test_date > latest_date
             THEN SearchYear(date_ordinal, latest_date, year - 1, stop_year)
             ELSE Some(test_date)

\* The entry appended for a leg with an unparsable flight_date taken as the
\* first day of the year.
LegDateBlankFirstDay(leg, today) ==
    LET n == PyInt(leg["flight_date"], 10)
        date_ordinal == IF IsNone(n) THEN 1 ELSE Val(n)
        latest_date == today + LatestDays
        latest_dt_year == YearOf(latest_date)
    IN  IF date_ordinal > MaxDateOrdinal \/ date_ordinal < 1 THEN None
        ELSE SearchYear(date_ordinal, latest_date, latest_dt_year,
                        latest_dt_year - SearchYears)

\* The entry flight_dates appends for one leg when the clock reads today.
LegDate(leg, today) ==
    LET n == PyInt(leg["flight_date"], 10)
        latest_date == today + LatestDays
        latest_dt_year == YearOf(latest_date)
    IN  IF IsNone(n) THEN None
        ELSE IF Val(n) > MaxDateOrdinal \/ Val(n) < 1 THEN None
        ELSE SearchYear(Val(n), latest_date, latest_dt_year,
                        latest_dt_year - SearchYears)

\* The clock, the wallet pass timestamp and flight_dates before any call.
InitDates(today, reference) ==
    /\ now = today
    /\ relevant_date = reference
    /\ fd_pc = "idle"
    /\ leg_dates = <<>>
    /\ leg_nows = <<>>
    /\ ticks = 0

-----------------------------------------------------------------------------
(* The state of aeroapi.py and tools.py before any command runs *)

\* Seconds between two requests.
WaitTime == 8

\* AeroAPIRateLimiter.__init__, run when the module is imported.
InitRateLimiter ==
    /\ clock = 0
    /\ wait_time = WaitTime
    /\ wait_until = 0
    /\ rl_pc = "idle"
    /\ rl_caller = ""
    /\ rl_now = 0
    /\ sleep_until = 0
    /\ rl_slept = FALSE
    /\ wait_returns = <<>>
    /\ wait_slept = <<>>
    /\ request_times = <<>>
    /\ request_fns = <<>>

\* The locals of the command t when it is entered.
InitTool(t) ==
    /\ tool = t
    /\ tool_pc = "start"
    /\ tool_legs = <<>>
    /\ selected_leg = None
    /\ airline = None
    /\ fa_flights = <<>>
    /\ flight = None
    /\ fields_set = FALSE
    /\ calls = <<>>

-----------------------------------------------------------------------------
(* BoardingPass.__init__ and BoardingPass.__parse *)

data_len == Len(text)

\* The state __init__ leaves before it calls __parse, for the text s.
InitWith(s) ==
    /\ text = s
    /\ pc = "mand_u"
    /\ raw = <<>>
    /\ legs = <<>>
    /\ legs_set = FALSE
    /\ valid = TRUE
    /\ version_number = None
    /\ leg_count = None
    /\ leg_index = 0
    /\ cursor = 0
    /\ leg_end = 0
    /\ cond_air_len = 0
    /\ cond_reads = {}
    /\ mand_starts = <<>>

Init ==
    \E s \in Inputs :
        /\ InitWith(s)
        /\ InitDates(Date(2025, 6, 15), None)
        /\ InitRateLimiter
        /\ InitTool("none")

\* Leaving __parse: by return, or by an exception nothing catches.
Return == pc' = "done"
Raise == pc' = "raised"

\* MANDATORY UNIQUE: the block is stored and leg_count parsed.
ParseMandU ==
    /\ pc = "mand_u"
    /\ UNCHANGED <<date_vars, caller_vars>>
    /\ LET raw1 == DictUpdate(raw, parse_mand_u(text))
       IN  /\ raw' = raw1
           /\ IF "leg_count" \notin DOMAIN raw1
              THEN /\ Raise
                   /\ UNCHANGED <<valid, leg_count, cursor, legs, legs_set>>
              ELSE LET n == PyInt(raw1["leg_count"], 10)
                   IN  IF IsNone(n)
                       THEN /\ valid' = FALSE
                            /\ Return
                            /\ UNCHANGED <<leg_count, cursor, legs, legs_set>>
                       ELSE /\ leg_count' = n
                            /\ cursor' = AllLengths(BCBP_FIELDS.mandatory_unique)
                            /\ legs' = <<>>
                            /\ legs_set' = TRUE
                            /\ pc' = "leg_loop"
                            /\ UNCHANGED valid
    /\ UNCHANGED <<text, version_number, leg_index, leg_end, cond_air_len,
                   cond_reads, mand_starts>>

\* Where the conditional and airline items of a leg end.
LegEndOneMore(c, n) == c + n + 1

LegEnd(c, n) == c + n

\* The block read first in a leg with conditional items.
CondStepAlwaysUnique(i) == "cond_u"

CondStep(i) == IF i = 0 THEN "cond_u" ELSE "cond_r"

\* One pass of the loop over the legs up to the end of the MANDATORY
\* REPEATED part: the block is stored, its length field parsed.
ParseMandR ==
    /\ pc = "leg_loop"
    /\ UNCHANGED <<date_vars, caller_vars>>
    /\ leg_index < Val(leg_count)
    /\ LET fields == parse_mand_r(text, cursor)
           mand_r_len == AllLengths(BCBP_FIELDS.mandatory_repeated)
       IN  /\ legs' = Append(legs, fields)
           /\ mand_starts' = Append(mand_starts, cursor)
           /\ cond_reads' = {}
           /\ IF "conditional_airline_length" \notin DOMAIN fields
              THEN /\ Raise
                   /\ UNCHANGED <<valid, cursor, leg_end, cond_air_len, leg_index>>
              ELSE LET n == PyInt(fields["conditional_airline_length"], 16)
                   IN  IF IsNone(n)
                       THEN /\ valid' = FALSE
                            /\ Return
                            /\ UNCHANGED <<cursor, leg_end, cond_air_len, leg_index>>
                       ELSE /\ cond_air_len' = Val(n)
                            /\ cursor' = cursor + mand_r_len
                            /\ leg_end' = LegEnd(cursor + mand_r_len, Val(n))
                            /\ UNCHANGED valid
                            /\ IF Val(n) = 0
                               THEN leg_index' = leg_index + 1 /\ pc' = "leg_loop"
                               ELSE /\ UNCHANGED leg_index
                                    /\ pc' = CondStep(leg_index)
    /\ UNCHANGED <<text, raw, legs_set, version_number, leg_count>>

\* CONDITIONAL UNIQUE, on the first leg.
ParseCondU ==
    /\ pc = "cond_u"
    /\ UNCHANGED <<date_vars, caller_vars>>
    /\ LET r == parse_cond_u(text, cursor)
           raw1 == DictUpdate(raw, r.cond)
       IN  /\ raw' = raw1
           /\ cond_reads' = cond_reads \cup r.reads
           /\ IF IsNone(r.length)
              THEN /\ valid' = FALSE
                   /\ Return
                   /\ UNCHANGED <<version_number, cursor, leg_index>>
              ELSE IF "version_number" \notin DOMAIN raw1
              THEN /\ Raise
                   /\ UNCHANGED <<valid, version_number, cursor, leg_index>>
              ELSE LET v == PyInt(raw1["version_number"], 10)
                   IN  /\ IF IsNone(v)
                          THEN valid' = FALSE /\ UNCHANGED version_number
                          ELSE version_number' = v /\ UNCHANGED valid
                       /\ cursor' = cursor + Val(r.length)
                       /\ IF cond_air_len = Val(r.length)
                          THEN leg_index' = leg_index + 1 /\ pc' = "leg_loop"
                          ELSE UNCHANGED leg_index /\ pc' = "cond_r"
    /\ UNCHANGED <<text, legs, legs_set, leg_count, leg_end, cond_air_len,
                   mand_starts>>

\* CONDITIONAL REPEAT.
ParseCondR ==
    /\ pc = "cond_r"
    /\ UNCHANGED <<date_vars, caller_vars>>
    /\ LET r == parse_cond_r(text, cursor)
       IN  /\ legs' = [legs EXCEPT ![leg_index + 1] = DictUpdate(@, r.cond)]
           /\ cond_reads' = cond_reads \cup r.reads
           /\ IF IsNone(r.length)
              THEN valid' = FALSE /\ Return /\ UNCHANGED cursor
              ELSE /\ cursor' = cursor + Val(r.length)
                   /\ pc' = "airline"
                   /\ UNCHANGED valid
    /\ UNCHANGED <<text, raw, legs_set, version_number, leg_count, leg_index,
                   leg_end, cond_air_len, mand_starts>>

\* The end of a leg that has a conditional repeated block: the airline data
\* and the move of the cursor to leg_end.
ParseAirline ==
    /\ pc = "airline"
    /\ UNCHANGED <<date_vars, caller_vars>>
    /\ IF cursor > leg_end
       THEN /\ Return
            /\ UNCHANGED <<legs, cond_reads, cursor, leg_index>>
       ELSE /\ IF cursor < leg_end
               THEN /\ legs' = [legs EXCEPT ![leg_index + 1] =
                                   DictUpdate(@, parse_airline(text, cursor, leg_end))]
                    /\ cond_reads' = cond_reads
                                       \cup SlicePositions(text, cursor, leg_end)
               ELSE UNCHANGED <<legs, cond_reads>>
            /\ cursor' = leg_end
            /\ leg_index' = leg_index + 1
            /\ pc' = "leg_loop"
    /\ UNCHANGED <<text, raw, legs_set, valid, version_number, leg_count,
                   leg_end, cond_air_len, mand_starts>>

\* After the loop: the cursor is checked against the length of the text.
EndLegs ==
    /\ pc = "leg_loop"
    /\ UNCHANGED <<date_vars, caller_vars>>
    /\ leg_index >= Val(leg_count)
    /\ IF cursor > data_len
       THEN valid' = FALSE /\ Return
       ELSE pc' = "security" /\ UNCHANGED valid
    /\ UNCHANGED <<text, raw, legs, legs_set, version_number, leg_count,
                   leg_index, cursor, leg_end, cond_air_len, cond_reads,
                   mand_starts>>

\* The versions whose security block is parsed.
SecurityInterpretedAnyVersion == ~IsNone(version_number)

SecurityInterpreted == ~IsNone(version_number) /\ Val(version_number) >= 3

\* SECURITY.
ParseSecurity ==
    /\ pc = "security"
    /\ UNCHANGED <<date_vars, caller_vars>>
    /\ IF SecurityInterpreted /\ cursor < data_len
       THEN LET r == parse_security(text, cursor)
            IN  /\ raw' = DictUpdate(raw, r.data)
                /\ IF IsNone(r.length)
                   THEN valid' = FALSE /\ Return /\ UNCHANGED cursor
                   ELSE /\ cursor' = cursor + Val(r.length)
                        /\ pc' = "unknown"
                        /\ UNCHANGED valid
       ELSE pc' = "unknown" /\ UNCHANGED <<raw, valid, cursor>>
    /\ UNCHANGED <<text, legs, legs_set, version_number, leg_count, leg_index,
                   leg_end, cond_air_len, cond_reads, mand_starts>>

\* LEFTOVER UNKNOWN DATA, and the return.
ParseUnknown ==
    /\ pc = "unknown"
    /\ UNCHANGED <<date_vars, caller_vars>>
    /\ raw' = IF cursor < data_len
              THEN DictSet(raw, "unknown", Slice(text, cursor, data_len))
              ELSE raw
    /\ Return
    /\ UNCHANGED <<text, legs, legs_set, valid, version_number, leg_count,
                   leg_index, cursor, leg_end, cond_air_len, cond_reads,
                   mand_starts>>

Next ==
    \/ ParseMandU
    \/ ParseMandR
    \/ ParseCondU
    \/ ParseCondR
    \/ ParseAirline
    \/ EndLegs
    \/ ParseSecurity
    \/ ParseUnknown

Spec == Init /\ [][Next]_vars

-----------------------------------------------------------------------------
(* BoardingPass.flight_dates on a decoded boarding pass *)

\* The most days the clock advances while flight_dates runs.
MaxTicks == 1

\* flight_date fields: every day of the year ...
ToDec3(n) ==
    DigitChar(n \div 100) \o DigitChar((n \div 10) % 10) \o DigitChar(n % 10)

OrdinalTexts == {ToDec3(n) : n \in 1..MaxDateOrdinal}

\* ... and fields that are out of range, padded, signed or not numbers.
OddDateTexts ==
    {"000", "367", "999", "-01", "ABC", "   ", "1 2", "12A", " 12", "12 ",
     "+12", "1_2"}

\* A 37-character mandatory repeated block with flight_date fd.
MandRDateText(fd, cal) ==
    "ABC123 " \o "YUL" \o "FRA" \o "AC " \o "0834 " \o fd \o "F"
        \o "001A" \o "0025 " \o "1" \o cal

\* A two-leg text with every kind of block, and texts that leave raw
\* without legs, with no leg, or with a leg cut inside its flight_date.
DatedText(fd0, fd1) ==
    MandUText("2") \o MandRDateText(fd0, "0C") \o ">502WX02ABXY"
        \o MandRDateText(fd1, "00") \o "^100AB"

CutTexts ==
    {MandUText("X"), MandUText("0"),
     SubSeq(MandUText("1") \o MandRDateText("226", "00"), 1, 46),
     SubSeq(MandUText("2") \o MandRDateText("001", "00")
               \o MandRDateText("226", "00"), 1, 82)}

\* The dates the clock is started at.
Clocks ==
    {Date(2025, 6, 15), Date(2026, 11, 5), Date(2024, 2, 26),
     Date(2024, 12, 27), Date(2024, 12, 28), Date(2025, 12, 30),
     Date(2100, 3, 1), Date(2103, 6, 15), Date(2104, 6, 15),
     Date(2104, 12, 27)}

FewClocks == {Date(2025, 6, 15), Date(2026, 11, 5), Date(2104, 6, 15)}

\* The timestamps of wallet passes.
RelevantDates ==
    {Date(2024, 12, 31), Date(2020, 12, 31), Date(2025, 1, 2),
     Date(2026, 7, 1), Date(2027, 1, 1)}

\* The texts, clocks and reference dates flight_dates is read with.
FlightDatesCases ==
    \/ \E fd0 \in OrdinalTexts, c \in Clocks :
          InitWith(DatedText(fd0, "226")) /\ InitDates(c, None)
    \/ \E fd0 \in OddDateTexts, fd1 \in OddDateTexts \cup {"001", "366"},
          c \in FewClocks :
          \/ InitWith(DatedText(fd0, fd1)) /\ InitDates(c, None)
          \/ InitWith(DatedText(fd1, fd0)) /\ InitDates(c, None)
    \/ \E s \in CutTexts, c \in FewClocks : InitWith(s) /\ InitDates(c, None)
    \/ \E fd0 \in {"001", "002", "183", "365", "366"}, fd1 \in {"226", "ABC"},
          c \in FewClocks, r \in RelevantDates :
          InitWith(DatedText(fd0, fd1)) /\ InitDates(c, Some(r))

InitFlightDates == FlightDatesCases /\ InitRateLimiter /\ InitTool("none")

\* The property is read on a constructed object: self.raw['legs'] is
\* looked up, which raises KeyError when __parse returned before line 177.
FlightDatesEnter ==
    /\ pc = "done"
    /\ fd_pc = "idle"
    /\ fd_pc' = IF legs_set THEN "loop" ELSE "raised"
    /\ UNCHANGED <<parse_vars, caller_vars, now, relevant_date, leg_dates, leg_nows, ticks>>

\* One pass of the loop over the legs: the clock is read and one entry is
\* appended.
FlightDatesLeg ==
    /\ fd_pc = "loop"
    /\ Len(leg_dates) < Len(legs)
    /\ LET leg == legs[Len(leg_dates) + 1]
       IN  IF "flight_date" \notin DOMAIN leg
           THEN fd_pc' = "raised" /\ UNCHANGED <<leg_dates, leg_nows>>
           ELSE /\ leg_dates' = Append(leg_dates, LegDate(leg, now))
                /\ leg_nows' = Append(leg_nows, now)
                /\ UNCHANGED fd_pc
    /\ UNCHANGED <<parse_vars, caller_vars, now, relevant_date, ticks>>

\* The end of the loop: leg_dates is returned.
FlightDatesReturn ==
    /\ fd_pc = "loop"
    /\ Len(leg_dates) = Len(legs)
    /\ fd_pc' = "returned"
    /\ UNCHANGED <<parse_vars, caller_vars, now, relevant_date, leg_dates, leg_nows, ticks>>

\* Midnight passes while flight_dates runs.
Tick ==
    /\ fd_pc = "loop"
    /\ ticks < MaxTicks
    /\ now' = now + 1
    /\ ticks' = ticks + 1
    /\ UNCHANGED <<parse_vars, caller_vars, relevant_date, fd_pc, leg_dates, leg_nows>>

NextFlightDates ==
    \/ ParseMandU
    \/ ParseMandR
    \/ ParseCondU
    \/ ParseCondR
    \/ ParseAirline
    \/ EndLegs
    \/ ParseSecurity
    \/ ParseUnknown
    \/ FlightDatesEnter
    \/ FlightDatesLeg
    \/ FlightDatesReturn
    \/ Tick

SpecFlightDates == InitFlightDates /\ [][NextFlightDates]_vars

-----------------------------------------------------------------------------
(* Properties of the decoder *)

Done == pc = "done"

\* The offset just after the mandatory repeated block of the current leg.
cursor_after_mandatory == leg_end - cond_air_len

\* The parse returned from inside the loop over the legs.
StoppedInLoop == Done /\ ~IsNone(leg_count) /\ leg_index < Val(leg_count)

\* A text of one or more hexadecimal digits.
IsHexText(s) == Len(s) > 0 /\ \A i \in 1..Len(s) : IsDigit(Char(s, i), 16)

\* The hexadecimal length fields stored so far.
StoredLengthFields ==
    {raw[k] : k \in DOMAIN raw \cap {"following_unique_length",
                                     "security_data_length"}}
    \cup UNION {{legs[i][k] :
                    k \in DOMAIN legs[i] \cap {"conditional_airline_length",
                                               "following_repeated_length"}} :
                i \in 1..Len(legs)}

\* The guard of some step of __parse holds.
CanStep ==
    \/ pc \in {"mand_u", "cond_u", "cond_r", "airline", "security", "unknown"}
    \/ pc = "leg_loop" /\ ~IsNone(leg_count)
          /\ (leg_index < Val(leg_count) \/ leg_index >= Val(leg_count))

\* C1: constructing BoardingPass(text) never raises: no state is left by an
\* uncaught exception, every state that has not returned has a next step,
\* and valid is a boolean throughout.
C1_NeverRaises ==
    /\ pc # "raised"
    /\ valid \in BOOLEAN
    /\ (Done \/ CanStep)

\* C1 witness: the decode of the empty text has returned, invalid.
C1_Witness == Done /\ text = "" /\ valid = FALSE

\* C2: every position a conditional or airline field of the current leg is
\* sliced from lies in [cursor_after_mandatory, leg_end).
C2_ReadsWithinLeg ==
    \A p \in cond_reads : cursor_after_mandatory <= p /\ p < leg_end

\* C3: a leg-count character other than 1, 2, 3, 4 ends in valid = false.
C3_LegCountOutOfRangeInvalid ==
    (Done /\ Slice(text, 1, 2) \notin {"1", "2", "3", "4"}) => valid = FALSE

\* C4: a text shorter than the mandatory unique block ends in valid = false
\* with no leg record.
C4_ShortTextNoLegs ==
    (Done /\ data_len < AllLengths(BCBP_FIELDS.mandatory_unique))
        => (valid = FALSE /\ legs = <<>>)

\* C5: a parse that stops early, inside the loop over the legs (in
\* particular because the conditional blocks ended past leg_end), ends in
\* valid = false.
C5_EarlyStopInvalid == StoppedInLoop => valid = FALSE

\* C6: a decode that ends valid has exactly leg_count legs.
C6_ValidHasAllLegs ==
    (Done /\ valid) => (legs_set /\ Len(legs) = Val(leg_count))

\* C7: a leg whose non-zero conditional_airline_length puts leg_end past the
\* end of the text ends the decode in valid = false.
C7_LegEndPastTextInvalid ==
    \A i \in 1..Len(legs) :
        LET n == PyInt(legs[i]["conditional_airline_length"], 16)
        IN  (/\ Done
             /\ ~IsNone(n)
             /\ Val(n) # 0
             /\ mand_starts[i] + AllLengths(BCBP_FIELDS.mandatory_repeated)
                    + Val(n) > data_len)
                => valid = FALSE

\* C8: valid = false is sticky: once it is false no step stores a field and
\* valid stays false.
C8_InvalidIsSticky ==
    [][valid = FALSE => (raw' = raw /\ legs' = legs /\ valid' = FALSE)]_vars

\* C9: a stored hexadecimal length field whose text is not hexadecimal has
\* made the document invalid and ended the parse by the time it is stored.
C9_BadHexInvalid ==
    \A v \in StoredLengthFields : ~IsHexText(v) => (valid = FALSE /\ Done)

\* C10: the single-leg text encoding any choice of the ten fixed-width
\* fields decodes to a valid document with one leg holding those values
\* and no conditional, airline, security or unknown field.
C10_RoundTrip ==
    (Done /\ text \in RoundTripInputs) =>
    \A v \in FieldValueChoices :
        text = EncodeSingleLeg(v) =>
            /\ valid
            /\ Len(legs) = 1
            /\ DOMAIN legs[1] = Keys(BCBP_FIELDS.mandatory_repeated)
            /\ \A k \in DOMAIN v : legs[1][k] = v[k]
            /\ legs[1]["conditional_airline_length"] = "00"
            /\ DOMAIN raw = Keys(BCBP_FIELDS.mandatory_unique)
            /\ IsNone(version_number)

\* C10 witness: a text with space-padded fields has been decoded.
C10_Witness ==
    /\ Done
    /\ valid
    /\ text = EncodeSingleLeg([pnr |-> "ABC123 ", from_airport |-> "   ",
                 to_airport |-> "0F ", operating_carrier |-> "AC ",
                 flight_number |-> "0834 ", flight_date |-> " 01",
                 compartment_code |-> " ", seat_number |-> "00  ",
                 check_in_sequence |-> "     ", passenger_status |-> "^"])
    /\ legs[1]["flight_number"] = "0834 "

-----------------------------------------------------------------------------
(* Properties of the conditional blocks *)

\* The conditional_airline_length of leg i as a number, None when it is
\* missing or unparsable.
LegCal(i) ==
    IF i <= Len(legs) /\ "conditional_airline_length" \in DOMAIN legs[i]
    THEN PyInt(legs[i]["conditional_airline_length"], 16)
    ELSE None

\* Where the conditional items of leg i begin and where its span ends.
CondStart(i) == mand_starts[i] + AllLengths(BCBP_FIELDS.mandatory_repeated)
LegSpanEnd(i) == CondStart(i) + Val(LegCal(i))

\* The stored values of the fields of a block, joined in declaration order.
RECURSIVE JoinFields(_, _, _)
JoinFields(d, fields, n) ==
    IF n <= 0 THEN ""
    ELSE JoinFields(d, fields, n - 1)
         \o (IF fields[n].key \in DOMAIN d THEN d[fields[n].key] ELSE "")

StoredCondUnique ==
    JoinFields(raw, BCBP_FIELDS.conditional_unique,
               Len(BCBP_FIELDS.conditional_unique))

\* Leg i holds no conditional repeated and no airline field.
NoRepeatedOrAirline(i) ==
    DOMAIN legs[i] \cap (Keys(BCBP_FIELDS.conditional_repeated)
                         \cup Keys(BCBP_FIELDS.airline_repeated)) = {}

\* The decoder is past the conditional unique step of the first leg.
PastCondU == Len(legs) >= 1 /\ ~IsNone(LegCal(1)) /\ pc # "cond_u"

\* C11: on the first leg, a conditional_airline_length of 1 to 3 makes the
\* decoder take exactly the characters up to leg_end as the Conditional
\* Unique block, read no Conditional Repeated or Airline block for the leg,
\* leave the document valid, and go on with the next leg at leg_end.
C11_ShortSizeIsCondUnique ==
    (PastCondU /\ Val(LegCal(1)) \in 1..3) =>
        /\ leg_index >= 1
        /\ StoredCondUnique = Slice(text, CondStart(1), LegSpanEnd(1))
        /\ NoRepeatedOrAirline(1)
        /\ Len(mand_starts) >= 2 => mand_starts[2] = LegSpanEnd(1)
        /\ Len(legs) = 1 => valid

\* The fields of a self-describing block found in d, read from offset: when
\* the declared following length ends inside field i, field i holds the
\* characters up to that end, the fields before it are whole, the fields
\* after it have no key, and the parse of the block did not fail.
TruncationStored(d, fields, flk, offset, leg) ==
    LET k == IndexOfKey(fields, flk)
        n == PyInt(d[flk], 16)
        fol_end == offset + SumLengths(fields, k) + Val(n)
        Start(i) == offset + SumLengths(fields, i - 1)
        Width(i) == Val(fields[i].length)
    IN  ~IsNone(n) =>
        \A i \in (k + 1)..Len(fields) :
            (Start(i) < fol_end /\ fol_end < Start(i) + Width(i)) =>
                /\ fields[i].key \in DOMAIN d
                /\ d[fields[i].key] = Slice(text, Start(i), fol_end)
                /\ Len(d[fields[i].key]) < Width(i)
                /\ \A j \in (i + 1)..Len(fields) : fields[j].key \notin DOMAIN d
                /\ \A j \in 1..(i - 1) :
                      /\ fields[j].key \in DOMAIN d
                      /\ d[fields[j].key]
                           = Slice(text, Start(j), Start(j) + Width(j))
                /\ ~(Done /\ ~valid /\ leg_index = leg - 1 /\ Len(legs) = leg
                       /\ cursor = offset)

\* Where the Conditional Repeated block of leg i begins.
CondRStart(i) ==
    IF i = 1
    THEN CondStart(1) + AllLengths(SubSeq(BCBP_FIELDS.conditional_unique, 1, 3))
           + Val(PyInt(raw["following_unique_length"], 16))
    ELSE CondStart(i)

\* C12: in the Conditional Unique and the Conditional Repeated block, when
\* the declared following length ends inside a field, that field is stored
\* cut to the characters that remain, every later field has no key, no
\* other field of the block is cut, and the document is not invalidated.
C12_TruncatedField ==
    /\ "following_unique_length" \in DOMAIN raw =>
          TruncationStored(raw, BCBP_FIELDS.conditional_unique,
                           "following_unique_length", CondStart(1), 1)
    /\ \A i \in 1..Len(legs) :
          "following_repeated_length" \in DOMAIN legs[i] =>
              TruncationStored(legs[i], BCBP_FIELDS.conditional_repeated,
                               "following_repeated_length", CondRStart(i), i)

\* C12 witness: both blocks of the first leg ended inside a field.
C12_Witness ==
    /\ Done /\ valid
    /\ leg_index = 1 /\ LegSpanEnd(1) = data_len
    /\ "boarding_pass_date" \in DOMAIN raw
    /\ raw["boarding_pass_date"] = "12"
    /\ "document_type" \notin DOMAIN raw
    /\ "airline_numeric_code" \in DOMAIN legs[1]
    /\ legs[1]["airline_numeric_code"] = "AB"
    /\ "document_form_serial_number" \notin DOMAIN legs[1]

\* The first leg declares a size equal to its Conditional Unique block.
ExactCondU ==
    /\ PastCondU
    /\ Val(LegCal(1)) # 0
    /\ "following_unique_length" \in DOMAIN raw
    /\ ~IsNone(PyInt(raw["following_unique_length"], 16))
    /\ CondRStart(1) = LegSpanEnd(1)

\* C13: when conditional_airline_length equals 4 + following_unique_length
\* on the first leg, the leg gets no Conditional Repeated and no Airline
\* field, the Conditional Unique fields are recorded, and the mandatory
\* block of the next leg is read at leg_end.
C13_ExactCondUnique ==
    ExactCondU =>
        /\ leg_index >= 1
        /\ NoRepeatedOrAirline(1)
        /\ StoredCondUnique
             = Slice(text, CondStart(1),
                     Min(LegSpanEnd(1),
                         CondStart(1) + AllLengths(BCBP_FIELDS.conditional_unique)))
        /\ Len(mand_starts) >= 2 => mand_starts[2] = LegSpanEnd(1)

\* C13 witness: a two-leg text whose first leg is exactly its Conditional
\* Unique block and whose second leg declares size 00 has been decoded.
C13_Witness ==
    /\ Done /\ valid
    /\ ExactCondU
    /\ Val(leg_count) = 2
    /\ Len(legs) = 2
    /\ legs[2]["conditional_airline_length"] = "00"
    /\ legs[2]["pnr"] = "ABC123 "
    /\ "version_number" \in DOMAIN raw

\* C14: whenever the span of the Conditional Unique block, 4 +
\* following_unique_length from its start, ends past the end of the text,
\* decoding ends with valid = false.
C14_CondUniquePastTextInvalid ==
    (/\ Done
     /\ "following_unique_length" \in DOMAIN raw
     /\ ~IsNone(PyInt(raw["following_unique_length"], 16))
     /\ CondRStart(1) > data_len) => valid = FALSE

\* C14 witness: such a text has been decoded, with a leg size that holds the
\* whole declared block.
C14_Witness ==
    /\ Done
    /\ "following_unique_length" \in DOMAIN raw
    /\ raw["following_unique_length"] = "FF"
    /\ CondRStart(1) > data_len
    /\ Val(LegCal(1)) >= 4

\* The parse went through all the legs and returned after the trailing data.
ReachedEnd ==
    /\ Done
    /\ ~IsNone(leg_count)
    /\ leg_index >= Val(leg_count)
    /\ cursor <= data_len

\* Where the last leg ends.
LegsEnd ==
    IF Len(legs) = 0 THEN AllLengths(BCBP_FIELDS.mandatory_unique)
    ELSE LegSpanEnd(Len(legs))

\* C15: without a version_number of 3 or more no security field is ever
\* stored, and the text after the last leg is recorded as unknown trailing
\* data without invalidating the document.
C15_SecurityNeedsVersion3 ==
    (IsNone(version_number) \/ Val(version_number) < 3) =>
        /\ DOMAIN raw \cap Keys(BCBP_FIELDS.security) = {}
        /\ ReachedEnd =>
              /\ LegsEnd < data_len =>
                    /\ "unknown" \in DOMAIN raw
                    /\ raw["unknown"] = Slice(text, LegsEnd, data_len)
              /\ valid = FALSE =>
                    /\ "version_number" \in DOMAIN raw
                    /\ IsNone(PyInt(raw["version_number"], 10))

\* C15 witness: a version 2 text followed by a security block was decoded.
C15_Witness ==
    /\ ReachedEnd /\ valid
    /\ version_number = Some(2)
    /\ "unknown" \in DOMAIN raw
    /\ raw["unknown"] = "^100"

\* C16: with a version_number of 3 or more, text that remains after the
\* last leg and does not begin with '^' is stored whole as security_data,
\* with no other security field and no unknown field, and the document
\* stays valid.
C16_UnmarkedSecurityData ==
    (/\ ReachedEnd
     /\ ~IsNone(version_number) /\ Val(version_number) >= 3
     /\ LegsEnd < data_len
     /\ Slice(text, LegsEnd, LegsEnd + 1) # "^") =>
        /\ DOMAIN raw \cap Keys(BCBP_FIELDS.security) = {"security_data"}
        /\ raw["security_data"] = Slice(text, LegsEnd, data_len)
        /\ "unknown" \notin DOMAIN raw
        /\ valid

\* C16 witness: a version 5 text followed by unmarked characters.
C16_Witness ==
    /\ ReachedEnd /\ valid
    /\ version_number = Some(5)
    /\ "security_data" \in DOMAIN raw
    /\ raw["security_data"] = "AB"
    /\ "security_data_begin" \notin DOMAIN raw

-----------------------------------------------------------------------------
(* Properties of flight_dates *)

\* The flight_date of leg i as a number, and whether it is one in 1..366.
LegOrdinal(i) == PyInt(legs[i]["flight_date"], 10)
OrdinalInRange(i) ==
    /\ ~IsNone(LegOrdinal(i))
    /\ 1 <= Val(LegOrdinal(i)) /\ Val(LegOrdinal(i)) <= MaxDateOrdinal

\* The latest date entry i of leg_dates could take.
LatestDate(i) == leg_nows[i] + LatestDays

\* Day n of year y, when the year has that many days.
DayN(y, n) == IF n <= DaysInYear(y) THEN Some(Jan1(y) + (n - 1)) ELSE None

\* C17: without a reference timestamp, the date resolved for an ordinal N
\* in 1..366 is the most recent date with day-of-year N that is not later
\* than now + 3 days: it is present, at most now + 3 days, has day-of-year
\* N, and no later date up to now + 3 days has day-of-year N; for N = 1 and
\* now = 2025-06-15 it is 2025-01-01.
C17_MostRecentMatchingDate ==
    \A i \in 1..Len(leg_dates) :
        (IsNone(relevant_date) /\ OrdinalInRange(i)) =>
            LET N == Val(LegOrdinal(i))
                R == leg_dates[i]
            IN  /\ ~IsNone(R)
                /\ Val(R) <= LatestDate(i)
                /\ DayOfYear(Val(R)) = N
                /\ \A y \in YearOf(Val(R))..YearOf(LatestDate(i)) :
                      ~IsNone(DayN(y, N)) =>
                          ~(Val(R) < Val(DayN(y, N))
                              /\ Val(DayN(y, N)) <= LatestDate(i))
                /\ (N = 1 /\ leg_nows[i] = Date(2025, 6, 15)) =>
                      Val(R) = Date(2025, 1, 1)

\* C18: without a reference timestamp, the date resolved for an ordinal in
\* 1..366 is present whatever the clock reads: the search over 8 years
\* always reaches a leap year for ordinal 366.
C18_AlwaysResolved ==
    \A i \in 1..Len(leg_dates) :
        (IsNone(relevant_date) /\ OrdinalInRange(i)) => ~IsNone(leg_dates[i])

\* Day N of the year of the reference date, of the year before and of the
\* year after.
ReferenceCandidates(ref, N) ==
    {Val(DayN(y, N)) :
        y \in {z \in (YearOf(ref) - 1)..(YearOf(ref) + 1) : ~IsNone(DayN(z, N))}}

Distance(a, b) == IF a >= b THEN a - b ELSE b - a

\* C19: with a reference timestamp, the date resolved for ordinal N is the
\* candidate, among day N of the reference year, the year before and the
\* year after, nearest in days to the reference date (absent when N = 366
\* and none of the three is a leap year); for the reference 2024-12-31 and
\* N = 366 it is 2024-12-31.
C19_NearestToReference ==
    \A i \in 1..Len(leg_dates) :
        (~IsNone(relevant_date) /\ OrdinalInRange(i)) =>
            LET N == Val(LegOrdinal(i))
                ref == Val(relevant_date)
                C == ReferenceCandidates(ref, N)
                R == leg_dates[i]
            IN  /\ C = {} => IsNone(R)
                /\ C # {} =>
                      /\ ~IsNone(R)
                      /\ Val(R) \in C
                      /\ \A c \in C : Distance(Val(R), ref) <= Distance(c, ref)
                /\ (N = 366 /\ ref = Date(2024, 12, 31)) =>
                      R = Some(Date(2024, 12, 31))

\* C20: a leg whose flight_date is not a number in 1..366 (int() reads the
\* number: below 1, above 366, or no number at all) gets None, and the
\* other legs keep their entries: the list has one entry per leg, in leg
\* order, each the date of that leg's own ordinal.
C20_BadOrdinalAbsent ==
    /\ \A i \in 1..Len(leg_dates) :
          /\ ~OrdinalInRange(i) => IsNone(leg_dates[i])
          /\ OrdinalInRange(i) =>
                /\ leg_dates[i] = LegDate(legs[i], leg_nows[i])
                /\ ~IsNone(leg_dates[i]) =>
                      DayOfYear(Val(leg_dates[i])) = Val(LegOrdinal(i))
    /\ fd_pc = "returned" => Len(leg_dates) = Len(legs)

\* C20 witness: flight_dates returned None for a first leg that is not a
\* number and for one that is out of range, with the second leg resolved.
C20_Witness ==
    /\ fd_pc = "returned"
    /\ Len(leg_dates) = 2
    /\ legs[1]["flight_date"] \in {"ABC", "367"}
    /\ IsNone(leg_dates[1])
    /\ legs[2]["flight_date"] = "001"
    /\ leg_nows[2] = Date(2025, 6, 15)
    /\ leg_dates[2] = Some(Date(2025, 1, 1))

-----------------------------------------------------------------------------
(* Properties of the per-leg loop *)

\* Where the mandatory block of leg k is expected: after the mandatory
\* unique block and, for each earlier leg, its mandatory block and the
\* size it declares.
RECURSIVE ExpectedStart(_)
ExpectedStart(k) ==
    IF k <= 1 THEN 23
    ELSE ExpectedStart(k - 1) + 37 + Val(LegCal(k - 1))

\* C22: whenever the mandatory repeated block of a leg is read, its start
\* offset is 23 plus, for every earlier leg, 37 plus that leg's
\* conditional_airline_length, on every path through the loop.
C22_MandatoryBlockAtLegEnd ==
    \A k \in 1..Len(mand_starts) : mand_starts[k] = ExpectedStart(k)

\* C22 witness: a third leg was read after a first leg with all three
\* conditional blocks and a second leg with a Conditional Repeated block
\* and no Airline block.
C22_Witness ==
    /\ Len(mand_starts) >= 3
    /\ "individual_airline_use" \in DOMAIN legs[1]
    /\ "following_repeated_length" \in DOMAIN legs[2]
    /\ "individual_airline_use" \notin DOMAIN legs[2]
    /\ mand_starts[2] > 60
    /\ mand_starts[3] > mand_starts[2] + 37
    /\ legs[3]["pnr"] = "ABC123 "

\* The conditional items of leg i have been parsed.
PastCondR(i) ==
    /\ i <= Len(legs)
    /\ ~IsNone(LegCal(i))
    /\ Val(LegCal(i)) # 0
    /\ ~(i = Len(legs) /\ pc \in {"cond_u", "cond_r"})

\* C23: a Conditional Unique block is read only for leg index 0 and its
\* fields are stored in raw, never in a leg; a later leg with a non-zero
\* conditional_airline_length has the block at its cursor parsed as a
\* Conditional Repeated block, stored in that leg and in no other.
C23_CondUniqueOnlyFirstLeg ==
    /\ pc = "cond_u" => leg_index = 0
    /\ \A i \in 1..Len(legs) :
          DOMAIN legs[i] \cap Keys(BCBP_FIELDS.conditional_unique) = {}
    /\ DOMAIN raw \cap (Keys(BCBP_FIELDS.mandatory_repeated)
                        \cup Keys(BCBP_FIELDS.conditional_repeated)
                        \cup Keys(BCBP_FIELDS.airline_repeated)) = {}
    /\ "version_number_begin" \in DOMAIN raw =>
          raw["version_number_begin"]
             = Slice(text, CondStart(1), CondStart(1) + 1)
    /\ \A i \in 2..Len(legs) :
          /\ PastCondR(i) =>
                /\ "following_repeated_length" \in DOMAIN legs[i]
                /\ legs[i]["following_repeated_length"]
                     = Slice(text, CondStart(i), CondStart(i) + 2)
          /\ (~IsNone(LegCal(i)) /\ Val(LegCal(i)) = 0) => NoRepeatedOrAirline(i)

\* C23 witness: a second leg got its own Conditional Repeated block while
\* the first leg, of size 00, got none.
C23_Witness ==
    /\ Done /\ valid
    /\ leg_index = Val(leg_count)
    /\ Len(legs) >= 2
    /\ NoRepeatedOrAirline(1)
    /\ "version_number" \notin DOMAIN raw
    /\ "airline_numeric_code" \in DOMAIN legs[2]
    /\ legs[2]["airline_numeric_code"] = "AB"

\* Where the Conditional Repeated block of leg i ends, once its length
\* field is stored and parsable.
HasCondREnd(i) ==
    /\ i <= Len(legs)
    /\ ~IsNone(LegCal(i))
    /\ "following_repeated_length" \in DOMAIN legs[i]
    /\ ~IsNone(PyInt(legs[i]["following_repeated_length"], 16))

CondREnd(i) ==
    CondRStart(i) + AllLengths(SubSeq(BCBP_FIELDS.conditional_repeated, 1, 1))
      + Val(PyInt(legs[i]["following_repeated_length"], 16))

\* C24: a leg whose Conditional Repeated block ended at c <= leg_end has
\* an individual_airline_use field exactly when c < leg_end, equal to
\* text[c:leg_end].
C24_AirlineBlock ==
    \A i \in 1..Len(legs) :
        (/\ HasCondREnd(i)
         /\ CondREnd(i) <= LegSpanEnd(i)
         /\ ~(i = Len(legs) /\ pc \in {"cond_r", "airline"})) =>
            /\ "individual_airline_use" \in DOMAIN legs[i]
                  <=> CondREnd(i) < LegSpanEnd(i)
            /\ CondREnd(i) < LegSpanEnd(i) =>
                  legs[i]["individual_airline_use"]
                     = Slice(text, CondREnd(i), LegSpanEnd(i))

\* C24 witness: one leg got an Airline block and the next, whose
\* Conditional Repeated block ends at leg_end, got none.
C24_Witness ==
    /\ Done /\ valid
    /\ Len(legs) >= 2
    /\ "individual_airline_use" \in DOMAIN legs[1]
    /\ legs[1]["individual_airline_use"] = "XY"
    /\ HasCondREnd(2)
    /\ CondREnd(2) = LegSpanEnd(2)
    /\ "individual_airline_use" \notin DOMAIN legs[2]

\* The fields of a block after its length field have no key in d.
NoFieldAfter(d, fields, flk) ==
    \A j \in (IndexOfKey(fields, flk) + 1)..Len(fields) :
        fields[j].key \notin DOMAIN d

\* The length field flk of d declares 0.
DeclaresZero(d, flk) ==
    flk \in DOMAIN d /\ PyInt(d[flk], 16) = Some(0)

\* The state __parse is in when __parse_cond_u has just returned a length.
JustAfterCondU ==
    \/ leg_index = 0 /\ pc = "cond_r"
    \/ /\ leg_index = 1 /\ pc = "leg_loop" /\ Len(legs) = 1
       /\ ~IsNone(LegCal(1)) /\ Val(LegCal(1)) # 0
       /\ NoRepeatedOrAirline(1)

\* C25: a block whose length field declares 0 yields no field after the
\* length field, spans up to the end of its length field (4 characters for
\* Conditional Unique, 2 for Conditional Repeated), and is not what sets
\* valid to false.
C25_ZeroLengthBlock ==
    /\ DeclaresZero(raw, "following_unique_length") =>
          /\ NoFieldAfter(raw, BCBP_FIELDS.conditional_unique,
                          "following_unique_length")
          /\ JustAfterCondU =>
                /\ cursor = CondStart(1) + 4
                /\ valid = FALSE => IsNone(PyInt(raw["version_number"], 10))
          /\ ~(Done /\ leg_index = 0 /\ Len(legs) = 1
                 /\ cursor = CondStart(1))
    /\ \A i \in 1..Len(legs) :
          DeclaresZero(legs[i], "following_repeated_length") =>
              /\ NoFieldAfter(legs[i], BCBP_FIELDS.conditional_repeated,
                              "following_repeated_length")
              /\ (leg_index = i - 1 /\ pc = "airline") =>
                    /\ cursor = CondRStart(i) + 2
                    /\ i > 1 => valid
              /\ ~(Done /\ ~valid /\ leg_index = i - 1 /\ Len(legs) = i
                     /\ cursor = CondRStart(i))

\* C25 witness: both blocks of a first leg declared 0 and the parse went on.
C25_Witness ==
    /\ Done /\ valid
    /\ DeclaresZero(raw, "following_unique_length")
    /\ DeclaresZero(legs[1], "following_repeated_length")
    /\ leg_index = 1
    /\ "individual_airline_use" \in DOMAIN legs[1]

\* The total width of the fields after the length field of a block.
WidthAfter(fields, flk) ==
    AllLengths(fields) - SumLengths(fields, IndexOfKey(fields, flk))

\* C27: the span of a block is the end of its length field plus the
\* declared following length, whatever fields were filled: a declared
\* length above the widths of the later fields leaves the excess
\* characters in no field and the cursor still moves past them.
C27_SpanIsDeclaredLength ==
    /\ (leg_index = 0 /\ pc = "cond_r") =>
          LET n == Val(PyInt(raw["following_unique_length"], 16))
              w == WidthAfter(BCBP_FIELDS.conditional_unique,
                              "following_unique_length")
              fields_end == CondStart(1) + 4 + w
          IN  /\ cursor = CondStart(1) + 4 + n
              /\ n > w =>
                    /\ cond_reads \cap fields_end..(cursor - 1) = {}
                    /\ Len(StoredCondUnique) <= 4 + w
    /\ pc = "airline" =>
          LET i == leg_index + 1
              n == Val(PyInt(legs[i]["following_repeated_length"], 16))
              w == WidthAfter(BCBP_FIELDS.conditional_repeated,
                              "following_repeated_length")
              fields_end == CondRStart(i) + 2 + w
              stored == JoinFields(legs[i], BCBP_FIELDS.conditional_repeated,
                                   Len(BCBP_FIELDS.conditional_repeated))
          IN  /\ cursor = CondRStart(i) + 2 + n
              /\ n > w =>
                    /\ cond_reads \cap fields_end..(cursor - 1) = {}
                    /\ Len(stored) <= 2 + w

\* C27 witness: a Conditional Repeated block declaring one character more
\* than its fields hold was parsed and the character went to no field.
C27_Witness ==
    /\ pc = "airline"
    /\ legs[leg_index + 1]["following_repeated_length"] = "2B"
    /\ legs[leg_index + 1]["fast_track"] = "R"
    /\ cursor <= data_len
    /\ Slice(text, cursor - 1, cursor) = "!"

\* C28: a Security block with the '^' marker whose security_data_length
\* runs past the end of the text has security_data cut at the end of the
\* text; the document stays valid, the cursor does not pass the end of
\* the text and no unknown trailing data is stored.
C28_SecurityDataClamped ==
    LET n == PyInt(Slice(text, LegsEnd + 2, LegsEnd + 4), 16)
    IN  (/\ pc \in {"unknown", "done"}
         /\ ~IsNone(leg_count) /\ leg_index >= Val(leg_count)
         /\ LegsEnd < data_len
         /\ ~IsNone(version_number) /\ Val(version_number) >= 3
         /\ Slice(text, LegsEnd, LegsEnd + 1) = "^"
         /\ ~IsNone(n)
         /\ LegsEnd + 4 + Val(n) > data_len) =>
            /\ "security_data" \in DOMAIN raw
            /\ raw["security_data"] = Slice(text, LegsEnd + 4, data_len)
            /\ valid
            /\ cursor <= data_len
            /\ "unknown" \notin DOMAIN raw

\* C28 witness: a marked Security block declaring 255 characters with two
\* characters left has been decoded.
C28_Witness ==
    /\ Done /\ valid
    /\ "security_data_length" \in DOMAIN raw
    /\ raw["security_data_length"] = "FF"
    /\ raw["security_data"] = "AB"
    /\ cursor = data_len

-----------------------------------------------------------------------------
(* flight_dates on every decoded document *)

\* C26: flight_dates never raises and, once it has returned, its list has
\* exactly one entry per leg of raw['legs'], also for a document whose
\* leg-count character is not a number.
C26_FlightDatesNeverRaises ==
    /\ fd_pc # "raised"
    /\ fd_pc = "returned" => Len(leg_dates) = Len(legs)

-----------------------------------------------------------------------------
(* aeroapi.py: the module-level rate limiter and the functions using it *)

\* The last second of the clock, and the most requests of one run.
MaxClock == 17
MaxRequests == 3

\* A run in which no BoardingPass is constructed.
NoBoardingPass ==
    /\ text = ""
    /\ pc = "absent"
    /\ raw = <<>>
    /\ legs = <<>>
    /\ legs_set = FALSE
    /\ valid = TRUE
    /\ version_number = None
    /\ leg_count = None
    /\ leg_index = 0
    /\ cursor = 0
    /\ leg_end = 0
    /\ cond_air_len = 0
    /\ cond_reads = <<>>
    /\ mand_starts = <<>>

InitAeroAPI ==
    /\ NoBoardingPass
    /\ InitDates(Date(2025, 6, 15), None)
    /\ InitRateLimiter
    /\ InitTool("none")

\* sleep_seconds = (self.wait_until - now).total_seconds()
SleepSeconds(until, t) == until - t

NextWaitUntilNow(t, w) == t

\* self.wait_until = datetime.now(timezone.utc) + timedelta(seconds=w)
NextWaitUntil(t, w) == t + w

\* A second passes; the clock never goes back.
ClockTick ==
    /\ clock < MaxClock
    /\ clock' = clock + 1
    /\ UNCHANGED <<parse_vars, date_vars, tool_vars, wait_time, wait_until,
                   rl_pc, rl_caller, rl_now, sleep_until, rl_slept,
                   wait_returns, wait_slept, request_times, request_fns>>

\* _rate_limiter.wait() is entered: with wait_time 0 it returns at once,
\* otherwise it reads the clock.
WaitEnter ==
    /\ rl_pc = "idle"
    /\ Len(request_times) < MaxRequests
    /\ rl_slept' = FALSE
    /\ IF wait_time = 0
       THEN /\ rl_pc' = "request"
            /\ wait_returns' = Append(wait_returns, clock)
            /\ wait_slept' = Append(wait_slept, FALSE)
            /\ UNCHANGED rl_now
       ELSE /\ rl_pc' = "compare"
            /\ rl_now' = clock
            /\ UNCHANGED <<wait_returns, wait_slept>>
    /\ UNCHANGED <<parse_vars, date_vars, tool_vars, clock, wait_time,
                   wait_until, sleep_until, request_times, request_fns>>

\* get_flights_ident up to its call of wait().
GetFlightsIdent ==
    /\ rl_caller' = "get_flights_ident"
    /\ WaitEnter

\* get_flights_ident_track up to its call of wait().
GetFlightsIdentTrack ==
    /\ rl_caller' = "get_flights_ident_track"
    /\ WaitEnter

\* if now < self.wait_until: time.sleep(sleep_seconds) is entered.
WaitCompare ==
    /\ rl_pc = "compare"
    /\ IF rl_now < wait_until
       THEN /\ rl_pc' = "sleeping"
            /\ sleep_until' = clock + SleepSeconds(wait_until, rl_now)
            /\ rl_slept' = TRUE
       ELSE /\ rl_pc' = "schedule"
            /\ UNCHANGED <<sleep_until, rl_slept>>
    /\ UNCHANGED <<parse_vars, date_vars, tool_vars, clock, wait_time,
                   wait_until, rl_caller, rl_now, wait_returns, wait_slept,
                   request_times, request_fns>>

\* time.sleep() returns, no earlier than the seconds asked for.
WaitWake ==
    /\ rl_pc = "sleeping"
    /\ clock >= sleep_until
    /\ rl_pc' = "schedule"
    /\ UNCHANGED <<parse_vars, date_vars, tool_vars, clock, wait_time,
                   wait_until, rl_caller, rl_now, sleep_until, rl_slept,
                   wait_returns, wait_slept, request_times, request_fns>>

\* The last statement of wait(): the next wait is scheduled from the
\* clock as it is now, and wait() returns; its locals are gone.
WaitSchedule ==
    /\ rl_pc = "schedule"
    /\ wait_until' = NextWaitUntil(clock, wait_time)
    /\ wait_returns' = Append(wait_returns, clock)
    /\ wait_slept' = Append(wait_slept, rl_slept)
    /\ rl_pc' = "request"
    /\ rl_now' = 0
    /\ sleep_until' = 0
    /\ rl_slept' = FALSE
    /\ UNCHANGED <<parse_vars, date_vars, tool_vars, clock, wait_time,
                   rl_caller, request_times, request_fns>>

\* requests.get() of the calling function.
RequestsGet ==
    /\ rl_pc = "request"
    /\ request_times' = Append(request_times, clock)
    /\ request_fns' = Append(request_fns, rl_caller)
    /\ rl_pc' = "idle"
    /\ rl_caller' = ""
    /\ UNCHANGED <<parse_vars, date_vars, tool_vars, clock, wait_time,
                   wait_until, rl_now, sleep_until, rl_slept,
                   wait_returns, wait_slept>>

NextAeroAPI ==
    \/ ClockTick
    \/ GetFlightsIdent
    \/ GetFlightsIdentTrack
    \/ WaitCompare
    \/ WaitWake
    \/ WaitSchedule
    \/ RequestsGet

SpecAeroAPI == InitAeroAPI /\ [][NextAeroAPI]_vars

\* C29: with wait_time > 0, each wait() returns no earlier than wait_time
\* after the previous wait() returned, so each request is issued no
\* earlier than wait_time after the wait() before the previous request
\* returned, whichever of the two functions issued them; the first wait()
\* does not sleep.
C29_RequestsSpaced ==
    wait_time > 0 =>
        /\ \A k \in 2..Len(wait_returns) :
              wait_returns[k] >= wait_returns[k - 1] + wait_time
        /\ \A k \in 2..Len(request_times) :
              request_times[k] >= wait_returns[k - 1] + wait_time
        /\ Len(wait_slept) >= 1 => ~wait_slept[1]
        /\ rl_pc = "sleeping" => Len(wait_returns) >= 1

\* C29 witness: three requests from both functions; the second wait()
\* slept and returned exactly wait_time after the first, the third came
\* late enough not to sleep.
C29_Witness ==
    /\ Len(request_times) = 3
    /\ request_fns = <<"get_flights_ident", "get_flights_ident_track",
                       "get_flights_ident">>
    /\ wait_slept = <<FALSE, TRUE, FALSE>>
    /\ wait_returns[2] = wait_returns[1] + wait_time
    /\ wait_time = WaitTime

-----------------------------------------------------------------------------
(* tools.py: the commands that add a flight *)

\* The most flights in one AeroAPI response.
MaxFlights == 2

\* Boarding pass texts given to the commands: every leg-count character
\* over a few first legs and endings, texts cut inside the first block,
\* and two-leg texts.
ToolTexts ==
    LegCountInputs \cup ShortInputs
        \cup {MandUText("2") \o leg0 \o leg1 :
                 leg0 \in Leg0Few,
                 leg1 \in {PlainLeg, LegText("02AB", "02"),
                           LegText("", "ZZ")}}

\* progress_percent in the JSON of a flight: null, a number (kind "int",
\* value n) or a string (kind "str", value s).
ProgressPercents ==
    {[kind |-> "null", n |-> 0, s |-> ""],
     [kind |-> "int", n |-> 0, s |-> ""],
     [kind |-> "int", n |-> 99, s |-> ""],
     [kind |-> "int", n |-> 100, s |-> ""],
     [kind |-> "str", n |-> 0, s |-> "100"],
     [kind |-> "str", n |-> 0, s |-> "abc"]}

\* The flights of a response, as far as the commands read them.
FaFlights ==
    {[progress_percent |-> p, fa_flight_id |-> Some("ACA834-1")] :
        p \in ProgressPercents}
        \cup {[progress_percent |-> [kind |-> "int", n |-> 100, s |-> ""],
                fa_flight_id |-> None]}

RECURSIVE SeqsUpTo(_, _)
SeqsUpTo(S, n) ==
    IF n = 0 THEN {<<>>}
    ELSE LET shorter == SeqsUpTo(S, n - 1)
         IN  shorter \cup {Append(q, x) : q \in shorter, x \in S}

FaResponses == SeqsUpTo(FaFlights, MaxFlights)

\* What the user types at a prompt.
Choices == {"Q", "q", "0", "1", "2", "3", "x", ""}

\* flight.progress = int(fa_json.get('progress_percent')), left None on
\* TypeError and ValueError.
Progress(p) ==
    CASE p.kind = "int" -> Some(p.n)
      [] p.kind = "str" -> PyInt(p.s, 10)
      [] OTHER -> None

\* Flight.from_aeroapi, as far as the commands read the flight.
FromAeroAPI(f) ==
    [progress |-> Progress(f.progress_percent),
     fa_flight_id |-> f.fa_flight_id]

NotValidNever(v) == FALSE

\* if not bp.valid
NotValid(v) == ~v

FlightNotCompleteBelow(progress) == ~IsNone(progress) /\ Val(progress) < 100

\* if flight.progress is None or flight.progress < 100
FlightNotComplete(progress) == IsNone(progress) \/ Val(progress) < 100

\* if self.progress is None or self.progress < 100 (no track is fetched)
TrackNotFetchable(progress) == IsNone(progress) \/ Val(progress) < 100

\* A prompt answered with choice over n rows: 0 when choice.upper() is
\* "Q", -1 when the prompt is repeated, or the number of the row
\* selected, counted from 1.
SelectRow(choice, n) ==
    LET v == PyInt(choice, 10)
    IN  IF choice \in {"Q", "q"} THEN 0
        ELSE IF IsNone(v) THEN -1
        ELSE IF Val(v) - 1 < 0 THEN -1
        ELSE IF Val(v) - 1 >= n THEN -1
        ELSE Val(v)

\* One entry of the local legs of add_flight_bcbp.
BcbpLeg(leg, today) ==
    [airline_iata |-> Strip(leg["operating_carrier"]),
     flight_number |-> Strip(leg["flight_number"]),
     orig_iata |-> Strip(leg["from_airport"]),
     dest_iata |-> Strip(leg["to_airport"]),
     flight_date |-> LegDate(leg, today)]

InitTools ==
    /\ InitDates(Date(2025, 6, 15), None)
    /\ InitRateLimiter
    /\ \/ \E s \in ToolTexts, t \in {"bcbp", "pkpasses"} :
             InitWith(s) /\ InitTool(t)
       \/ \E t \in {"fa_flight_id", "number"} : NoBoardingPass /\ InitTool(t)

\* add_flight_bcbp after bp = BoardingPass(bcbp_str): an invalid pass ends
\* the process with status 1.
BcbpCheckValid ==
    /\ tool = "bcbp" /\ tool_pc = "start"
    /\ pc = "done"
    /\ tool_pc' = IF NotValid(valid) THEN "exit1" ELSE "legs"
    /\ UNCHANGED <<parse_vars, date_vars, rate_vars, tool, tool_legs,
                   selected_leg, airline, fa_flights, flight, fields_set,
                   calls>>

\* flight_dates is read and the local legs are built from bp.raw['legs'];
\* a single leg is selected without a prompt.
BcbpLegs ==
    /\ tool = "bcbp" /\ tool_pc = "legs"
    /\ calls' = Append(calls, "legs")
    /\ IF \/ ~legs_set
          \/ \E i \in 1..Len(legs) :
                ~({"operating_carrier", "flight_number", "from_airport",
                   "to_airport", "flight_date"} \subseteq DOMAIN legs[i])
       THEN /\ tool_pc' = "raised"
            /\ UNCHANGED <<tool_legs, selected_leg>>
       ELSE /\ tool_legs' = [i \in 1..Len(legs) |-> BcbpLeg(legs[i], now)]
            /\ IF Len(legs) = 1
               THEN selected_leg' = Some(1) /\ tool_pc' = "airline"
               ELSE UNCHANGED selected_leg /\ tool_pc' = "select_leg"
    /\ UNCHANGED <<parse_vars, date_vars, rate_vars, tool, airline,
                   fa_flights, flight, fields_set>>

\* The prompt for a leg: Q ends the process with status 0, a number that
\* is no leg repeats the prompt.
BcbpSelectLeg ==
    /\ tool = "bcbp" /\ tool_pc = "select_leg"
    /\ \E choice \in Choices :
          LET r == SelectRow(choice, Len(tool_legs))
          IN  CASE r = 0 -> tool_pc' = "exit0" /\ UNCHANGED selected_leg
                [] r > 0 -> selected_leg' = Some(r) /\ tool_pc' = "airline"
                [] OTHER -> UNCHANGED <<tool_pc, selected_leg>>
    /\ UNCHANGED <<parse_vars, date_vars, rate_vars, tool, tool_legs,
                   airline, fa_flights, flight, fields_set, calls>>

\* fl.Airline.find_by_code: flight_log.py of this source tree defines no
\* Airline, so the call raises AttributeError; the results of a lookup
\* (None, or an airline) are kept as well.
FindAirline ==
    /\ \/ tool = "bcbp" /\ tool_pc = "airline"
       \/ tool = "number" /\ tool_pc = "start"
    /\ calls' = Append(calls, "find_by_code")
    /\ \/ tool_pc' = "raised" /\ UNCHANGED airline
       \/ tool_pc' = "request" /\ airline' = None
       \/ tool_pc' = "request" /\ airline' = Some("fid")
    /\ UNCHANGED <<parse_vars, date_vars, rate_vars, tool, tool_legs,
                   selected_leg, fa_flights, flight, fields_set>>

\* aero.get_flights_ident returns the flights of the response; the fields
\* passed on read airline.fid, which raises AttributeError on None.
GetFlights ==
    /\ \/ tool \in {"bcbp", "number"} /\ tool_pc = "request"
       \/ tool = "fa_flight_id" /\ tool_pc = "start"
    /\ calls' = Append(calls, "get_flights_ident")
    /\ \E response \in FaResponses : fa_flights' = response
    /\ tool_pc' = IF tool \in {"bcbp", "number"} /\ IsNone(airline)
                  THEN "raised" ELSE "results"
    /\ UNCHANGED <<parse_vars, date_vars, rate_vars, tool, tool_legs,
                   selected_leg, airline, flight, fields_set>>

\* response.raise_for_status() raises.
GetFlightsFails ==
    /\ \/ tool \in {"bcbp", "number"} /\ tool_pc = "request"
       \/ tool = "fa_flight_id" /\ tool_pc = "start"
    /\ calls' = Append(calls, "get_flights_ident")
    /\ tool_pc' = "raised"
    /\ UNCHANGED <<parse_vars, date_vars, rate_vars, tool, tool_legs,
                   selected_leg, airline, fa_flights, flight, fields_set>>

\* _add_fa_flight_results up to the selected flight: no flight ends the
\* process with status 1; one flight is selected without a prompt; with
\* more the user picks a row of the table (sorted by scheduled_out, which
\* is not kept here: any row can be any flight) or quits.
ResultsSelect ==
    /\ tool_pc = "results"
    /\ IF Len(fa_flights) = 0
       THEN tool_pc' = "exit1" /\ UNCHANGED flight
       ELSE IF Len(fa_flights) = 1
       THEN flight' = Some(FromAeroAPI(fa_flights[1])) /\ tool_pc' = "check"
       ELSE \E choice \in Choices :
               LET r == SelectRow(choice, Len(fa_flights))
               IN  CASE r = 0 -> tool_pc' = "exit0" /\ UNCHANGED flight
                     [] r > 0 -> /\ flight' = Some(FromAeroAPI(fa_flights[r]))
                                 /\ tool_pc' = "check"
                     [] OTHER -> UNCHANGED <<tool_pc, flight>>
    /\ UNCHANGED <<parse_vars, date_vars, rate_vars, tool, tool_legs,
                   selected_leg, airline, fa_flights, fields_set, calls>>

\* A flight that is not complete ends the process with status 1.
ResultsCheck ==
    /\ tool_pc = "check"
    /\ tool_pc' = IF FlightNotComplete(Val(flight).progress)
                  THEN "exit1" ELSE "track"
    /\ UNCHANGED <<parse_vars, date_vars, rate_vars, tool, tool_legs,
                   selected_leg, airline, fa_flights, flight, fields_set,
                   calls>>

\* flight.fetch_aeroapi_track_geometry(): the track is requested for a
\* complete flight with an fa_flight_id.
ResultsTrack ==
    /\ tool_pc = "track"
    /\ calls' = IF \/ TrackNotFetchable(Val(flight).progress)
                   \/ IsNone(Val(flight).fa_flight_id)
                THEN calls
                ELSE Append(calls, "get_flights_ident_track")
    /\ tool_pc' = "fields"
    /\ UNCHANGED <<parse_vars, date_vars, rate_vars, tool, tool_legs,
                   selected_leg, airline, fa_flights, flight, fields_set>>

\* The fields the command passed are set on the flight.
ResultsFields ==
    /\ tool_pc = "fields"
    /\ fields_set' = (tool # "fa_flight_id")
    /\ tool_pc' = "save"
    /\ UNCHANGED <<parse_vars, date_vars, rate_vars, tool, tool_legs,
                   selected_leg, airline, fa_flights, flight, calls>>

\* flight.save(): Flight of this source tree defines no save, so the
\* call raises AttributeError; its return is kept as well.
ResultsSave ==
    /\ tool_pc = "save"
    /\ calls' = Append(calls, "save")
    /\ \E saved \in BOOLEAN : tool_pc' = IF saved THEN "routes" ELSE "raised"
    /\ UNCHANGED <<parse_vars, date_vars, rate_vars, tool, tool_legs,
                   selected_leg, airline, fa_flights, flight, fields_set>>

\* update_routes(), the last statement of the command.
UpdateRoutes ==
    /\ tool_pc = "routes"
    /\ calls' = Append(calls, "update_routes")
    /\ tool_pc' = "returned"
    /\ UNCHANGED <<parse_vars, date_vars, rate_vars, tool, tool_legs,
                   selected_leg, airline, fa_flights, flight, fields_set>>

\* add_flight_pkpasses after bp = BoardingPass(message): an invalid pass
\* is skipped.
PkpassCheckValid ==
    /\ tool = "pkpasses" /\ tool_pc = "start"
    /\ pc = "done"
    /\ tool_pc' = IF NotValid(valid) THEN "skipped" ELSE "first_leg"
    /\ UNCHANGED <<parse_vars, date_vars, rate_vars, tool, tool_legs,
                   selected_leg, airline, fa_flights, flight, fields_set,
                   calls>>

\* bp.raw['legs'][0].get('operating_carrier').strip(): IndexError on a
\* pass without legs.
PkpassFirstLeg ==
    /\ tool = "pkpasses" /\ tool_pc = "first_leg"
    /\ calls' = Append(calls, "legs")
    /\ tool_pc' = IF \/ ~legs_set
                     \/ Len(legs) = 0
                     \/ "operating_carrier" \notin DOMAIN legs[1]
                  THEN "raised" ELSE "returned"
    /\ UNCHANGED <<parse_vars, date_vars, rate_vars, tool, tool_legs,
                   selected_leg, airline, fa_flights, flight, fields_set>>

NextTools ==
    \/ ParseMandU
    \/ ParseMandR
    \/ ParseCondU
    \/ ParseCondR
    \/ ParseAirline
    \/ EndLegs
    \/ ParseSecurity
    \/ ParseUnknown
    \/ BcbpCheckValid
    \/ BcbpLegs
    \/ BcbpSelectLeg
    \/ FindAirline
    \/ GetFlights
    \/ GetFlightsFails
    \/ ResultsSelect
    \/ ResultsCheck
    \/ ResultsTrack
    \/ ResultsFields
    \/ ResultsSave
    \/ UpdateRoutes
    \/ PkpassCheckValid
    \/ PkpassFirstLeg

SpecTools == InitTools /\ [][NextTools]_vars

\* The selected flight's progress is 100 or more.
Complete == ~IsNone(flight) /\ ~IsNone(Val(flight).progress)
                /\ Val(Val(flight).progress) >= 100

Called(name) == \E i \in 1..Len(calls) : calls[i] = name

\* C21: while the pass is being decoded and once it is found invalid, the
\* commands have read no leg and called nothing: add_flight_bcbp ends
\* with status 1 before any airline lookup, AeroAPI request, save or route
\* update, and add_flight_pkpasses skips the pass without reading its
\* legs.
C21_InvalidPassUnused ==
    (tool \in {"bcbp", "pkpasses"} /\ (pc # "done" \/ ~valid)) =>
        /\ calls = <<>>
        /\ tool_legs = <<>>
        /\ tool_pc \in {"start", IF tool = "bcbp" THEN "exit1" ELSE "skipped"}

\* C21 witness: add_flight_bcbp has ended with status 1 on a pass whose
\* legs were decoded in part.
C21_Witness ==
    /\ tool = "bcbp"
    /\ tool_pc = "exit1"
    /\ ~valid
    /\ Len(legs) >= 1

\* C30: the save, the setting of the fields and the track request come
\* only after a flight with progress 100 or more was selected; a flight
\* with no progress or less than 100 ends the process with status 1, and
\* so does an empty response.
C30_OnlyCompleteSaved ==
    /\ (tool_pc \in {"track", "fields", "save", "routes", "returned"}
            /\ tool # "pkpasses") => Complete
    /\ (Called("save") \/ Called("get_flights_ident_track") \/ fields_set
            \/ Called("update_routes")) => Complete
    /\ (~IsNone(flight) /\ ~Complete) => tool_pc \in {"check", "exit1"}
    /\ (Called("get_flights_ident") /\ fa_flights = <<>>) =>
            /\ tool_pc \in {"results", "exit1", "raised"}
            /\ IsNone(flight)
            /\ ~Called("save")

\* C30 witness: a response of two flights, the incomplete one selected,
\* and the process ended with status 1.
C30_Witness ==
    /\ tool_pc = "exit1"
    /\ Len(fa_flights) = 2
    /\ ~IsNone(flight)
    /\ IsNone(Val(flight).progress)
    /\ \E i \in 1..2 : Progress(fa_flights[i].progress_percent) = Some(100)

====
